---- MODULE Spec2Model ----
(***************************************************************************)
(* Housework Queue (src/src/App.jsx): the planning engine (urgency score,  *)
(* greedy budgeted plan), the locked daily plan and the handlers that      *)
(* change the application state {tasks, todayPlan}.                        *)
(*                                                                         *)
(* Calendar dates are day numbers (an ISO date string and the day it       *)
(* denotes are identified; local midnights are taken 24 h apart).  Scores  *)
(* are exact fractions: 100 * score = ScoreNum / ScoreDen.                 *)
(***************************************************************************)
EXTENDS Integers, Sequences, FiniteSets, TLC

\* ------------------------------------------------------------------ bounds

\* Most tasks the collection holds at once.
MaxTasks == 2
\* Last calendar day the clock reaches (the clock starts at day 0).
MaxDay == 1
\* Most completions on record in the task collection.
MaxDone == 2

\* ------------------------------------------------------- program constants

MinMinutes == 1
MaxMinutes == 240
MinFreq == 1
MaxFreq == 3650
MinBudget == 10
MaxBudget == 240
InitBudget == 60
DefaultEst == 15
HistoryCap == 20

\* ----------------------------------------------------------------- helpers

Max(a, b) == IF a >= b THEN a ELSE b
Min(a, b) == IF a <= b THEN a ELSE b

Range(s) == {s[i] : i \in 1..Len(s)}

\* s.filter(x => x !== id)
RECURSIVE FilterOut(_, _)
FilterOut(s, id) ==
  IF s = <<>> THEN <<>>
  ELSE IF Head(s) = id THEN FilterOut(Tail(s), id)
       ELSE <<Head(s)>> \o FilterOut(Tail(s), id)

\* A numeric input as the user typed it or as a file carries it: a finite
\* number, or text that Number() turns into NaN.
Num(v) == [fin |-> TRUE, v |-> v]
NaN == [fin |-> FALSE, v |-> 0]

clampInt(n, min, max) ==
  IF ~n.fin THEN min ELSE Max(min, Min(max, n.v))

\* ------------------------------------------------------- calendar, urgency

addDaysISO(iso, days) == iso + days

\* b - a in days
daysBetweenISO(aISO, bISO) == bISO - aISO

\* The text of a task's lastDoneISO: the day that new Date(y, m - 1, d) makes
\* of it, and whether the text names a real calendar date.
ISO(day) == [day |-> day, real |-> TRUE]

computeDueISO(task) == addDaysISO(task.lastDoneISO.day, Max(1, task.freqDays))

\* Variant of isOverdue that counts a task due today as overdue.
isOverdueFromDueDay(task, now) == daysBetweenISO(computeDueISO(task), now) >= 0

isOverdue(task, now) == daysBetweenISO(computeDueISO(task), now) > 0

Freq(task) == Max(1, task.freqDays)
DaysSince(task, now) == Max(0, daysBetweenISO(task.lastDoneISO.day, now))

\* ratio = daysSince / freq;  ratio < 1  <=>  daysSince < freq
DueBranch(task, now) == ~(DaysSince(task, now) < Freq(task))

\* 100 * urgencyScore(task, now) = ScoreNum / ScoreDen, with ScoreDen = freq^2:
\*   not due:  0.02 * ratio               = (2*d*f / f^2) / 100
\*   due:      (ratio-1)^2 + 0.05 * ratio = ((100 (d-f)^2 + 5*d*f) / f^2) / 100
ScoreDen(task) == Freq(task) * Freq(task)

\* Variant of ScoreNum with 0.2 * ratio for a task not yet due.
ScoreNumSteep(task, now) ==
  LET f == Freq(task)
      d == DaysSince(task, now)
  IN  IF d < f THEN 20 * d * f
      ELSE 100 * (d - f) * (d - f) + 5 * d * f

ScoreNum(task, now) ==
  LET f == Freq(task)
      d == DaysSince(task, now)
  IN  IF d < f THEN 2 * d * f
      ELSE 100 * (d - f) * (d - f) + 5 * d * f

\* ----------------------------------------------------------------- buildPlan

\* Math.max(1, t.estMin || 15): a zero (or missing) estimate counts as 15
EstOf(task) == Max(1, IF task.estMin = 0 THEN DefaultEst ELSE task.estMin)

Scored(task, now) ==
  [task    |-> task,
   num     |-> ScoreNum(task, now),
   den     |-> ScoreDen(task),
   est     |-> EstOf(task),
   overdue |-> isOverdue(task, now),
   dueISO  |-> computeDueISO(task)]

\* Variant of Before without the due-date comparison of line 136.
BeforeNoDueDate(a, b) ==
  IF a.overdue # b.overdue THEN a.overdue
  ELSE b.num * a.den < a.num * b.den

\* the sort comparator returns a negative number: a goes before b
Before(a, b) ==
  IF a.overdue # b.overdue THEN a.overdue
  ELSE IF b.num * a.den # a.num * b.den THEN b.num * a.den < a.num * b.den
  ELSE a.dueISO < b.dueISO

\* Array.prototype.sort is stable: equal items keep their input order
RECURSIVE InsertSorted(_, _)
InsertSorted(sorted, x) ==
  IF sorted = <<>> THEN <<x>>
  ELSE IF Before(x, Head(sorted)) THEN <<x>> \o sorted
       ELSE <<Head(sorted)>> \o InsertSorted(Tail(sorted), x)

RECURSIVE SortScored(_)
SortScored(items) ==
  IF items = <<>> THEN <<>>
  ELSE InsertSorted(SortScored(SubSeq(items, 1, Len(items) - 1)), items[Len(items)])

ScoredList(tasks, now) ==
  SortScored([i \in 1..Len(tasks) |-> Scored(tasks[i], now)])

\* Variant of GreedyFill without the "never exceed" test of line 144.
RECURSIVE GreedyFillOverBudget(_, _, _, _, _)
GreedyFillOverBudget(scored, i, picked, total, budget) ==
  IF i > Len(scored) THEN [pickedIds |-> picked, totalEstMin |-> total]
  ELSE IF total >= budget THEN [pickedIds |-> picked, totalEstMin |-> total]
  ELSE GreedyFillOverBudget(scored, i + 1, Append(picked, scored[i].task.id),
                            total + scored[i].est, budget)

\* Variant of GreedyFill that ends the scan at the first item that does not
\* fit (break for the continue of line 144).
RECURSIVE GreedyFillStopsAtMisfit(_, _, _, _, _)
GreedyFillStopsAtMisfit(scored, i, picked, total, budget) ==
  IF i > Len(scored) THEN [pickedIds |-> picked, totalEstMin |-> total]
  ELSE IF total >= budget THEN [pickedIds |-> picked, totalEstMin |-> total]
  ELSE IF scored[i].est + total > budget
       THEN [pickedIds |-> picked, totalEstMin |-> total]
  ELSE GreedyFillStopsAtMisfit(scored, i + 1, Append(picked, scored[i].task.id),
                               total + scored[i].est, budget)

\* the for loop of buildPlan over the items from index i on
RECURSIVE GreedyFill(_, _, _, _, _)
GreedyFill(scored, i, picked, total, budget) ==
  IF i > Len(scored) THEN [pickedIds |-> picked, totalEstMin |-> total]
  ELSE IF total >= budget THEN [pickedIds |-> picked, totalEstMin |-> total]
  ELSE IF scored[i].est + total > budget
       THEN GreedyFill(scored, i + 1, picked, total, budget)
  ELSE GreedyFill(scored, i + 1, Append(picked, scored[i].task.id),
                  total + scored[i].est, budget)

\* Variant of buildPlan without the fallback of lines 149-153.
buildPlanNoFallback(tasks, now, budget) ==
  GreedyFill(ScoredList(tasks, now), 1, <<>>, 0, budget)

buildPlan(tasks, now, budget) ==
  LET scored == ScoredList(tasks, now)
      fill   == GreedyFill(scored, 1, <<>>, 0, budget)
  IN  IF Len(fill.pickedIds) = 0 /\ Len(scored) > 0
      THEN [pickedIds |-> <<scored[1].task.id>>,
            totalEstMin |-> Max(1, scored[1].est)]
      ELSE fill

\* --------------------------------------------------------------- ewmaUpdate

\* The pairs <<oldV, actV>> of 1..240 for which the double oldV * (1 - 0.3) +
\* actV * 0.3 falls just below the half 0.7 * oldV + 0.3 * actV ends in, so
\* that Math.round returns the integer below: 1 * 0.7 + 36 * 0.3 is
\* 11.499999999999998 and rounds to 11.  (1 - 0.3 is the double 0.7; every
\* other pair of the range rounds as the exact value does, a half going up.)
EwmaRoundsDown ==
  { <<1, 36>>, <<1, 46>>, <<1, 96>>, <<2, 57>>, <<2, 67>>, <<2, 77>>,
    <<2, 87>>, <<2, 97>>, <<2, 197>>, <<2, 207>>, <<3, 18>>, <<3, 218>>,
    <<3, 228>>, <<3, 238>>, <<4, 109>>, <<4, 119>>, <<4, 129>>, <<4, 139>>,
    <<4, 149>>, <<4, 159>>, <<4, 169>>, <<4, 179>>, <<4, 189>>, <<4, 199>>,
    <<6, 1>>, <<6, 11>>, <<6, 31>>, <<7, 2>>, <<7, 62>>, <<7, 72>>, <<7, 82>>,
    <<7, 192>>, <<8, 223>>, <<8, 233>>, <<9, 114>>, <<9, 124>>, <<9, 134>>,
    <<9, 144>>, <<9, 154>>, <<9, 164>>, <<9, 174>>, <<9, 184>>, <<12, 7>>,
    <<12, 17>>, <<12, 57>>, <<12, 67>>, <<12, 77>>, <<13, 218>>, <<13, 228>>,
    <<13, 238>>, <<14, 9>>, <<14, 109>>, <<14, 119>>, <<14, 129>>,
    <<14, 139>>, <<14, 149>>, <<14, 159>>, <<14, 169>>, <<14, 179>>,
    <<17, 2>>, <<17, 12>>, <<17, 62>>, <<18, 223>>, <<18, 233>>, <<19, 4>>,
    <<19, 114>>, <<19, 124>>, <<19, 134>>, <<19, 144>>, <<19, 154>>,
    <<19, 164>>, <<23, 8>>, <<23, 18>>, <<23, 48>>, <<23, 218>>, <<23, 228>>,
    <<23, 238>>, <<24, 9>>, <<24, 19>>, <<24, 29>>, <<24, 39>>, <<24, 49>>,
    <<24, 109>>, <<24, 119>>, <<24, 129>>, <<24, 139>>, <<24, 149>>,
    <<28, 3>>, <<28, 13>>, <<28, 23>>, <<28, 223>>, <<28, 233>>, <<29, 4>>,
    <<29, 14>>, <<29, 24>>, <<29, 34>>, <<29, 114>>, <<29, 124>>, <<29, 134>>,
    <<29, 144>>, <<33, 8>>, <<33, 18>>, <<33, 218>>, <<33, 228>>, <<33, 238>>,
    <<34, 9>>, <<34, 19>>, <<34, 109>>, <<34, 119>>, <<34, 129>>, <<38, 3>>,
    <<38, 13>>, <<38, 223>>, <<38, 233>>, <<39, 4>>, <<39, 14>>, <<39, 114>>,
    <<43, 218>>, <<43, 228>>, <<43, 238>>, <<44, 109>>, <<46, 1>>, <<46, 11>>,
    <<46, 21>>, <<46, 31>>, <<46, 41>>, <<46, 51>>, <<46, 101>>, <<48, 3>>,
    <<48, 13>>, <<48, 23>>, <<48, 33>>, <<48, 43>>, <<48, 53>>, <<48, 63>>,
    <<48, 73>>, <<48, 83>>, <<48, 93>>, <<48, 223>>, <<48, 233>>, <<51, 6>>,
    <<51, 16>>, <<51, 26>>, <<51, 36>>, <<51, 46>>, <<53, 8>>, <<53, 18>>,
    <<53, 28>>, <<53, 38>>, <<53, 48>>, <<53, 58>>, <<53, 68>>, <<53, 78>>,
    <<53, 88>>, <<53, 218>>, <<53, 228>>, <<53, 238>>, <<56, 1>>, <<56, 11>>,
    <<56, 21>>, <<56, 31>>, <<56, 41>>, <<56, 51>>, <<58, 3>>, <<58, 13>>,
    <<58, 23>>, <<58, 33>>, <<58, 43>>, <<58, 53>>, <<58, 63>>, <<58, 73>>,
    <<58, 223>>, <<58, 233>>, <<61, 6>>, <<61, 16>>, <<61, 26>>, <<61, 36>>,
    <<61, 46>>, <<63, 8>>, <<63, 18>>, <<63, 28>>, <<63, 38>>, <<63, 48>>,
    <<63, 58>>, <<63, 218>>, <<63, 228>>, <<63, 238>>, <<66, 1>>, <<66, 11>>,
    <<66, 21>>, <<66, 31>>, <<66, 41>>, <<66, 51>>, <<68, 3>>, <<68, 13>>,
    <<68, 23>>, <<68, 33>>, <<68, 43>>, <<68, 53>>, <<68, 223>>, <<68, 233>>,
    <<71, 6>>, <<71, 16>>, <<71, 26>>, <<71, 36>>, <<71, 46>>, <<73, 8>>,
    <<73, 18>>, <<73, 28>>, <<73, 38>>, <<73, 218>>, <<73, 228>>, <<73, 238>>,
    <<76, 1>>, <<76, 11>>, <<76, 21>>, <<76, 31>>, <<78, 3>>, <<78, 13>>,
    <<78, 23>>, <<78, 223>>, <<78, 233>>, <<81, 6>>, <<81, 16>>, <<83, 8>>,
    <<83, 18>>, <<83, 218>>, <<83, 228>>, <<85, 10>>, <<86, 1>>, <<86, 11>>,
    <<88, 3>>, <<92, 7>>, <<92, 17>>, <<92, 27>>, <<92, 37>>, <<92, 47>>,
    <<92, 57>>, <<92, 67>>, <<92, 77>>, <<92, 87>>, <<92, 97>>, <<92, 197>>,
    <<92, 207>>, <<96, 1>>, <<96, 11>>, <<96, 21>>, <<96, 31>>, <<96, 41>>,
    <<96, 51>>, <<96, 61>>, <<96, 71>>, <<96, 81>>, <<96, 91>>, <<96, 101>>,
    <<96, 111>>, <<96, 121>>, <<96, 131>>, <<96, 141>>, <<96, 151>>,
    <<96, 161>>, <<96, 171>>, <<96, 181>>, <<96, 191>>, <<96, 201>>,
    <<97, 2>>, <<97, 12>>, <<97, 22>>, <<97, 32>>, <<97, 42>>, <<97, 52>>,
    <<97, 62>>, <<97, 72>>, <<97, 82>>, <<97, 92>>, <<97, 102>>, <<97, 192>>,
    <<101, 6>>, <<101, 16>>, <<101, 26>>, <<101, 36>>, <<101, 46>>,
    <<101, 56>>, <<101, 66>>, <<101, 76>>, <<101, 86>>, <<101, 96>>,
    <<101, 106>>, <<101, 116>>, <<101, 126>>, <<101, 136>>, <<101, 146>>,
    <<101, 156>>, <<101, 166>>, <<101, 176>>, <<101, 186>>, <<102, 7>>,
    <<102, 17>>, <<102, 27>>, <<102, 37>>, <<102, 47>>, <<102, 57>>,
    <<102, 67>>, <<102, 77>>, <<102, 87>>, <<102, 97>>, <<106, 1>>,
    <<106, 11>>, <<106, 21>>, <<106, 31>>, <<106, 41>>, <<106, 51>>,
    <<106, 61>>, <<106, 71>>, <<106, 81>>, <<106, 91>>, <<106, 101>>,
    <<106, 111>>, <<106, 121>>, <<106, 131>>, <<106, 141>>, <<106, 151>>,
    <<106, 161>>, <<106, 171>>, <<107, 2>>, <<107, 12>>, <<107, 22>>,
    <<107, 32>>, <<107, 42>>, <<107, 52>>, <<107, 62>>, <<107, 72>>,
    <<107, 82>>, <<107, 92>>, <<107, 102>>, <<111, 6>>, <<111, 16>>,
    <<111, 26>>, <<111, 36>>, <<111, 46>>, <<111, 56>>, <<111, 66>>,
    <<111, 76>>, <<111, 86>>, <<111, 96>>, <<111, 106>>, <<111, 116>>,
    <<111, 126>>, <<111, 136>>, <<111, 146>>, <<111, 156>>, <<111, 166>>,
    <<112, 7>>, <<112, 17>>, <<112, 27>>, <<112, 37>>, <<112, 47>>,
    <<112, 57>>, <<112, 67>>, <<112, 77>>, <<112, 87>>, <<112, 97>>,
    <<116, 1>>, <<116, 11>>, <<116, 21>>, <<116, 31>>, <<116, 41>>,
    <<116, 51>>, <<116, 61>>, <<116, 71>>, <<116, 81>>, <<116, 91>>,
    <<116, 101>>, <<116, 111>>, <<116, 121>>, <<116, 131>>, <<116, 141>>,
    <<116, 151>>, <<117, 2>>, <<117, 12>>, <<117, 22>>, <<117, 32>>,
    <<117, 42>>, <<117, 52>>, <<117, 62>>, <<117, 72>>, <<117, 82>>,
    <<117, 92>>, <<117, 102>>, <<121, 6>>, <<121, 16>>, <<121, 26>>,
    <<121, 36>>, <<121, 46>>, <<121, 56>>, <<121, 66>>, <<121, 76>>,
    <<121, 86>>, <<121, 96>>, <<121, 106>>, <<121, 116>>, <<121, 126>>,
    <<121, 136>>, <<122, 7>>, <<122, 17>>, <<122, 27>>, <<122, 37>>,
    <<122, 47>>, <<122, 57>>, <<122, 67>>, <<122, 77>>, <<122, 87>>,
    <<122, 97>>, <<126, 1>>, <<126, 11>>, <<126, 21>>, <<126, 31>>,
    <<126, 41>>, <<126, 51>>, <<126, 61>>, <<126, 71>>, <<126, 81>>,
    <<126, 91>>, <<126, 101>>, <<126, 111>>, <<126, 121>>, <<126, 131>>,
    <<127, 2>>, <<127, 12>>, <<127, 22>>, <<127, 32>>, <<127, 42>>,
    <<127, 52>>, <<127, 62>>, <<127, 72>>, <<127, 82>>, <<127, 92>>,
    <<127, 102>>, <<131, 6>>, <<131, 16>>, <<131, 26>>, <<131, 36>>,
    <<131, 46>>, <<131, 56>>, <<131, 66>>, <<131, 76>>, <<131, 86>>,
    <<131, 96>>, <<131, 106>>, <<131, 116>>, <<132, 7>>, <<132, 17>>,
    <<132, 27>>, <<132, 37>>, <<132, 47>>, <<132, 57>>, <<132, 67>>,
    <<132, 77>>, <<132, 87>>, <<132, 97>>, <<136, 1>>, <<136, 11>>,
    <<136, 21>>, <<136, 31>>, <<136, 41>>, <<136, 51>>, <<136, 61>>,
    <<136, 71>>, <<136, 81>>, <<136, 91>>, <<136, 101>>, <<137, 2>>,
    <<137, 12>>, <<137, 22>>, <<137, 32>>, <<137, 42>>, <<137, 52>>,
    <<137, 62>>, <<137, 72>>, <<137, 82>>, <<137, 92>>, <<137, 102>>,
    <<141, 6>>, <<141, 16>>, <<141, 26>>, <<141, 36>>, <<141, 46>>,
    <<141, 56>>, <<141, 66>>, <<141, 76>>, <<141, 86>>, <<141, 96>>,
    <<142, 7>>, <<142, 17>>, <<142, 27>>, <<142, 37>>, <<142, 47>>,
    <<142, 57>>, <<142, 67>>, <<142, 77>>, <<142, 87>>, <<146, 1>>,
    <<146, 11>>, <<146, 21>>, <<146, 31>>, <<146, 41>>, <<146, 51>>,
    <<146, 61>>, <<146, 71>>, <<146, 81>>, <<147, 2>>, <<147, 12>>,
    <<147, 22>>, <<147, 32>>, <<147, 42>>, <<147, 52>>, <<147, 62>>,
    <<147, 72>>, <<147, 82>>, <<151, 6>>, <<151, 16>>, <<151, 26>>,
    <<151, 36>>, <<151, 46>>, <<151, 56>>, <<151, 66>>, <<152, 7>>,
    <<152, 17>>, <<152, 27>>, <<152, 37>>, <<152, 47>>, <<152, 57>>,
    <<152, 67>>, <<156, 1>>, <<156, 11>>, <<156, 21>>, <<156, 31>>,
    <<156, 41>>, <<156, 51>>, <<156, 61>>, <<157, 2>>, <<157, 12>>,
    <<157, 22>>, <<157, 32>>, <<157, 42>>, <<157, 52>>, <<161, 6>>,
    <<161, 16>>, <<161, 26>>, <<161, 36>>, <<161, 46>>, <<162, 7>>,
    <<162, 17>>, <<162, 27>>, <<162, 37>>, <<162, 47>>, <<165, 10>>,
    <<165, 20>>, <<165, 30>>, <<165, 40>>, <<166, 1>>, <<166, 11>>,
    <<166, 21>>, <<166, 31>>, <<167, 2>>, <<167, 12>>, <<167, 22>>,
    <<167, 32>>, <<170, 5>>, <<170, 15>>, <<170, 25>>, <<171, 6>>,
    <<171, 16>>, <<171, 26>>, <<172, 7>>, <<172, 17>>, <<175, 10>>,
    <<176, 1>>, <<176, 11>>, <<177, 2>>, <<177, 12>>, <<180, 5>>, <<184, 9>>,
    <<184, 19>>, <<184, 29>>, <<184, 39>>, <<184, 49>>, <<184, 59>>,
    <<184, 69>>, <<184, 79>>, <<184, 89>>, <<184, 99>>, <<184, 109>>,
    <<184, 119>>, <<184, 129>>, <<184, 139>>, <<184, 149>>, <<184, 159>>,
    <<184, 169>>, <<184, 179>>, <<184, 189>>, <<184, 199>>, <<184, 209>>,
    <<189, 4>>, <<189, 14>>, <<189, 24>>, <<189, 34>>, <<189, 44>>,
    <<189, 54>>, <<189, 64>>, <<189, 74>>, <<189, 84>>, <<189, 94>>,
    <<189, 104>>, <<189, 114>>, <<189, 124>>, <<189, 134>>, <<189, 144>>,
    <<189, 154>>, <<189, 164>>, <<189, 174>>, <<189, 184>>, <<189, 194>>,
    <<189, 204>>, <<192, 7>>, <<192, 17>>, <<192, 27>>, <<192, 37>>,
    <<192, 47>>, <<192, 57>>, <<192, 67>>, <<192, 77>>, <<192, 87>>,
    <<192, 97>>, <<192, 107>>, <<192, 117>>, <<192, 127>>, <<192, 137>>,
    <<192, 147>>, <<192, 157>>, <<192, 167>>, <<192, 177>>, <<192, 187>>,
    <<192, 197>>, <<192, 207>>, <<192, 217>>, <<192, 227>>, <<192, 237>>,
    <<194, 9>>, <<194, 19>>, <<194, 29>>, <<194, 39>>, <<194, 49>>,
    <<194, 59>>, <<194, 69>>, <<194, 79>>, <<194, 89>>, <<194, 99>>,
    <<194, 109>>, <<194, 119>>, <<194, 129>>, <<194, 139>>, <<194, 149>>,
    <<194, 159>>, <<194, 169>>, <<194, 179>>, <<194, 189>>, <<194, 199>>,
    <<194, 209>>, <<197, 2>>, <<197, 12>>, <<197, 22>>, <<197, 32>>,
    <<197, 42>>, <<197, 52>>, <<197, 62>>, <<197, 72>>, <<197, 82>>,
    <<197, 92>>, <<197, 102>>, <<197, 112>>, <<197, 122>>, <<197, 132>>,
    <<197, 142>>, <<197, 152>>, <<197, 162>>, <<197, 172>>, <<197, 182>>,
    <<197, 192>>, <<197, 202>>, <<197, 212>>, <<197, 222>>, <<197, 232>>,
    <<199, 4>>, <<199, 14>>, <<199, 24>>, <<199, 34>>, <<199, 44>>,
    <<199, 54>>, <<199, 64>>, <<199, 74>>, <<199, 84>>, <<199, 94>>,
    <<199, 104>>, <<199, 114>>, <<199, 124>>, <<199, 134>>, <<199, 144>>,
    <<199, 154>>, <<199, 164>>, <<199, 174>>, <<199, 184>>, <<199, 194>>,
    <<199, 204>>, <<202, 7>>, <<202, 17>>, <<202, 27>>, <<202, 37>>,
    <<202, 47>>, <<202, 57>>, <<202, 67>>, <<202, 77>>, <<202, 87>>,
    <<202, 97>>, <<202, 107>>, <<202, 117>>, <<202, 127>>, <<202, 137>>,
    <<202, 147>>, <<202, 157>>, <<202, 167>>, <<202, 177>>, <<202, 187>>,
    <<202, 197>>, <<202, 207>>, <<202, 217>>, <<202, 227>>, <<202, 237>>,
    <<204, 9>>, <<204, 19>>, <<204, 29>>, <<204, 39>>, <<204, 49>>,
    <<204, 59>>, <<204, 69>>, <<204, 79>>, <<204, 89>>, <<204, 99>>,
    <<204, 109>>, <<204, 119>>, <<204, 129>>, <<204, 139>>, <<204, 149>>,
    <<204, 159>>, <<204, 169>>, <<204, 179>>, <<204, 189>>, <<204, 199>>,
    <<204, 209>>, <<207, 2>>, <<207, 12>>, <<207, 22>>, <<207, 32>>,
    <<207, 42>>, <<207, 52>>, <<207, 62>>, <<207, 72>>, <<207, 82>>,
    <<207, 92>>, <<207, 102>>, <<207, 112>>, <<207, 122>>, <<207, 132>>,
    <<207, 142>>, <<207, 152>>, <<207, 162>>, <<207, 172>>, <<207, 182>>,
    <<207, 192>>, <<207, 202>>, <<207, 212>>, <<207, 222>>, <<207, 232>>,
    <<209, 4>>, <<209, 14>>, <<209, 24>>, <<209, 34>>, <<209, 44>>,
    <<209, 54>>, <<209, 64>>, <<209, 74>>, <<209, 84>>, <<209, 94>>,
    <<209, 104>>, <<209, 114>>, <<209, 124>>, <<209, 134>>, <<209, 144>>,
    <<209, 154>>, <<209, 164>>, <<209, 174>>, <<209, 184>>, <<209, 194>>,
    <<209, 204>>, <<212, 7>>, <<212, 17>>, <<212, 27>>, <<212, 37>>,
    <<212, 47>>, <<212, 57>>, <<212, 67>>, <<212, 77>>, <<212, 87>>,
    <<212, 97>>, <<212, 107>>, <<212, 117>>, <<212, 127>>, <<212, 137>>,
    <<212, 147>>, <<212, 157>>, <<212, 167>>, <<212, 177>>, <<212, 187>>,
    <<212, 197>>, <<212, 207>>, <<212, 217>>, <<212, 227>>, <<212, 237>>,
    <<214, 9>>, <<214, 19>>, <<214, 29>>, <<214, 39>>, <<214, 49>>,
    <<214, 59>>, <<214, 69>>, <<214, 79>>, <<214, 89>>, <<214, 99>>,
    <<214, 109>>, <<214, 119>>, <<214, 129>>, <<214, 139>>, <<214, 149>>,
    <<214, 159>>, <<214, 169>>, <<214, 179>>, <<214, 189>>, <<214, 199>>,
    <<214, 209>>, <<217, 2>>, <<217, 12>>, <<217, 22>>, <<217, 32>>,
    <<217, 42>>, <<217, 52>>, <<217, 62>>, <<217, 72>>, <<217, 82>>,
    <<217, 92>>, <<217, 102>>, <<217, 112>>, <<217, 122>>, <<217, 132>>,
    <<217, 142>>, <<217, 152>>, <<217, 162>>, <<217, 172>>, <<217, 182>>,
    <<217, 192>>, <<217, 202>>, <<217, 212>>, <<217, 222>>, <<217, 232>>,
    <<219, 4>>, <<219, 14>>, <<219, 24>>, <<219, 34>>, <<219, 44>>,
    <<219, 54>>, <<219, 64>>, <<219, 74>>, <<219, 84>>, <<219, 94>>,
    <<219, 104>>, <<219, 114>>, <<219, 124>>, <<219, 134>>, <<219, 144>>,
    <<219, 154>>, <<219, 164>>, <<219, 174>>, <<219, 184>>, <<219, 194>>,
    <<219, 204>>, <<222, 7>>, <<222, 17>>, <<222, 27>>, <<222, 37>>,
    <<222, 47>>, <<222, 57>>, <<222, 67>>, <<222, 77>>, <<222, 87>>,
    <<222, 97>>, <<222, 107>>, <<222, 117>>, <<222, 127>>, <<222, 137>>,
    <<222, 147>>, <<222, 157>>, <<222, 167>>, <<222, 177>>, <<222, 187>>,
    <<222, 197>>, <<222, 207>>, <<222, 217>>, <<222, 227>>, <<222, 237>>,
    <<224, 9>>, <<224, 19>>, <<224, 29>>, <<224, 39>>, <<224, 49>>,
    <<224, 59>>, <<224, 69>>, <<224, 79>>, <<224, 89>>, <<224, 99>>,
    <<224, 109>>, <<224, 119>>, <<224, 129>>, <<224, 139>>, <<224, 149>>,
    <<224, 159>>, <<224, 169>>, <<224, 179>>, <<224, 189>>, <<224, 199>>,
    <<224, 209>>, <<227, 2>>, <<227, 12>>, <<227, 22>>, <<227, 32>>,
    <<227, 42>>, <<227, 52>>, <<227, 62>>, <<227, 72>>, <<227, 82>>,
    <<227, 92>>, <<227, 102>>, <<227, 112>>, <<227, 122>>, <<227, 132>>,
    <<227, 142>>, <<227, 152>>, <<227, 162>>, <<227, 172>>, <<227, 182>>,
    <<227, 192>>, <<227, 202>>, <<227, 212>>, <<227, 222>>, <<227, 232>>,
    <<229, 4>>, <<229, 14>>, <<229, 24>>, <<229, 34>>, <<229, 44>>,
    <<229, 54>>, <<229, 64>>, <<229, 74>>, <<229, 84>>, <<229, 94>>,
    <<229, 104>>, <<229, 114>>, <<229, 124>>, <<229, 134>>, <<229, 144>>,
    <<229, 154>>, <<229, 164>>, <<229, 174>>, <<229, 184>>, <<229, 194>>,
    <<229, 204>>, <<232, 7>>, <<232, 17>>, <<232, 27>>, <<232, 37>>,
    <<232, 47>>, <<232, 57>>, <<232, 67>>, <<232, 77>>, <<232, 87>>,
    <<232, 97>>, <<232, 107>>, <<232, 117>>, <<232, 127>>, <<232, 137>>,
    <<232, 147>>, <<232, 157>>, <<232, 167>>, <<232, 177>>, <<232, 187>>,
    <<232, 197>>, <<232, 207>>, <<232, 217>>, <<232, 227>>, <<232, 237>>,
    <<234, 9>>, <<234, 19>>, <<234, 29>>, <<234, 39>>, <<234, 49>>,
    <<234, 59>>, <<234, 69>>, <<234, 79>>, <<234, 89>>, <<234, 99>>,
    <<234, 109>>, <<234, 119>>, <<234, 129>>, <<234, 139>>, <<234, 149>>,
    <<234, 159>>, <<234, 169>>, <<234, 179>>, <<234, 189>>, <<234, 199>>,
    <<234, 209>>, <<237, 2>>, <<237, 12>>, <<237, 22>>, <<237, 32>>,
    <<237, 42>>, <<237, 52>>, <<237, 62>>, <<237, 72>>, <<237, 82>>,
    <<237, 92>>, <<237, 102>>, <<237, 112>>, <<237, 122>>, <<237, 132>>,
    <<237, 142>>, <<237, 152>>, <<237, 162>>, <<237, 172>>, <<237, 182>>,
    <<237, 192>>, <<237, 202>>, <<237, 212>>, <<237, 222>>, <<237, 232>>,
    <<239, 4>>, <<239, 14>>, <<239, 24>>, <<239, 34>>, <<239, 44>>,
    <<239, 54>>, <<239, 64>>, <<239, 74>>, <<239, 84>>, <<239, 94>>,
    <<239, 104>>, <<239, 114>>, <<239, 124>>, <<239, 134>>, <<239, 144>>,
    <<239, 154>>, <<239, 164>>, <<239, 174>>, <<239, 184>>, <<239, 194>>,
    <<239, 204>> }

\* Math.round(oldV * (1 - alpha) + actV * alpha) with alpha = 0.3, at least 1;
\* a zero old estimate counts as 15 and a zero actual as the old estimate
ewmaUpdate(oldEst, actualMin) ==
  LET oldV == Max(1, IF oldEst = 0 THEN DefaultEst ELSE oldEst)
      actV == Max(1, IF actualMin = 0 THEN oldV ELSE actualMin)
  IN  Max(1, IF <<oldV, actV>> \in EwmaRoundsDown
             THEN (7 * oldV + 3 * actV) \div 10
             ELSE (7 * oldV + 3 * actV + 5) \div 10)

\* -------------------------------------------------------------------- state

VARIABLES
  tasks,          \* state.tasks: sequence of task records
  todayPlan,      \* state.todayPlan: NoPlan or [dateISO, pickedIds, completedIds]
  budgetMin,      \* the daily budget
  clock,          \* the calendar day todayISO() returns
  nowISO,         \* todayISO() as of the last render (what the handlers close over)
  ensurePending,  \* the plan effect of the last render has yet to run
  reading         \* the file restoreFromFile is awaiting, NoFile when none

vars == <<tasks, todayPlan, budgetMin, clock, nowISO, ensurePending,
          reading>>

NoPlan == [absent |-> TRUE]
NoFile == [absent |-> TRUE]

IdPool == 1..(MaxTasks + 1)

TaskIds(ts) == {ts[i].id : i \in 1..Len(ts)}

HasPlanFor(plan, day) == plan # NoPlan /\ plan.dateISO = day

\* uid(): an id no task and no plan entry carries
UsedIds(ts, plan) ==
  TaskIds(ts) \cup (IF plan = NoPlan THEN {}
                    ELSE Range(plan.pickedIds) \cup Range(plan.completedIds))

uid(used) == CHOOSE i \in IdPool \ used : \A j \in IdPool \ used : i <= j

\* defaultTasksFromSample() at day t
defaultTasksFromSample(t) ==
  << [id |-> 1, name |-> "Swiffer front hallway", freqDays |-> 4,
      lastDoneISO |-> ISO(addDaysISO(t, -10)), estMin |-> 15, history |-> <<>>],
     [id |-> 2, name |-> "Change AC filters", freqDays |-> 31,
      lastDoneISO |-> ISO(addDaysISO(t, -60)), estMin |-> 15, history |-> <<>>] >>

Init ==
  /\ clock = 0
  /\ tasks = defaultTasksFromSample(0)
  /\ todayPlan = NoPlan
  /\ budgetMin = InitBudget
  /\ nowISO = 0
  /\ ensurePending = TRUE
  /\ reading = NoFile

\* A click reaches a handler once the effects of the last render have run.
CanClick == ~ensurePending

\* ------------------------------------------------------------ plan lifecycle

\* Variant of ensureTodayPlan that rebuilds whether or not a plan for today
\* exists.
ensureTodayPlanAlways(prevTasks, prevPlan, force, now, budget) ==
  [dateISO |-> now,
   pickedIds |-> buildPlan(prevTasks, now, budget).pickedIds,
   completedIds |-> <<>>]

\* Variant of ensureTodayPlan that carries the completed ids of the plan it
\* replaces over to the new plan.
ensureTodayPlanKeepsCompleted(prevTasks, prevPlan, force, now, budget) ==
  IF ~force /\ HasPlanFor(prevPlan, now) THEN prevPlan
  ELSE [dateISO |-> now,
        pickedIds |-> buildPlan(prevTasks, now, budget).pickedIds,
        completedIds |-> IF prevPlan = NoPlan THEN <<>> ELSE prevPlan.completedIds]

\* the updater of ensureTodayPlan(forceRegenerate) applied to prev
ensureTodayPlan(prevTasks, prevPlan, force, now, budget) ==
  IF ~force /\ HasPlanFor(prevPlan, now) THEN prevPlan
  ELSE [dateISO |-> now,
        pickedIds |-> buildPlan(prevTasks, now, budget).pickedIds,
        completedIds |-> <<>>]

\* The render a state update brings: nowISO = todayISO(), and the effect
\* with dependency [nowISO] is scheduled when nowISO changed; it will call
\* ensureTodayPlan(false) if the rendered state has no plan for today.
Rerender(plan) ==
  /\ nowISO' = clock
  /\ ensurePending' = (clock # nowISO /\ ~HasPlanFor(plan, clock))

\* The scheduled effect runs ensureTodayPlan(false) on the current state,
\* with the nowISO and budget of the render that scheduled it.
PlanEffect ==
  /\ ensurePending
  /\ todayPlan' = ensureTodayPlan(tasks, todayPlan, FALSE, nowISO, budgetMin)
  /\ Rerender(todayPlan')
  /\ UNCHANGED <<tasks, budgetMin, clock, reading>>

\* The Regenerate / Generate Today's List buttons: ensureTodayPlan(true).
Regenerate ==
  /\ CanClick
  /\ todayPlan' = ensureTodayPlan(tasks, todayPlan, TRUE, nowISO, budgetMin)
  /\ Rerender(todayPlan')
  /\ UNCHANGED <<tasks, budgetMin, clock, reading>>

\* Midnight passes.
Tick ==
  /\ clock < MaxDay
  /\ clock' = clock + 1
  /\ UNCHANGED <<tasks, todayPlan, budgetMin, nowISO, ensurePending,
                 reading>>

\* What the budget field is set to: a number below the range, and the
\* budget the application starts with.
BudgetInputs == {Num(3), Num(InitBudget)}

\* the budget field: setBudgetMin(clampInt(value, 10, 240)); setting the
\* value the state already holds brings no render
SetBudget(raw) ==
  /\ CanClick
  /\ budgetMin' = clampInt(raw, MinBudget, MaxBudget)
  /\ IF budgetMin' = budgetMin THEN UNCHANGED <<nowISO, ensurePending>>
     ELSE Rerender(todayPlan)
  /\ UNCHANGED <<tasks, todayPlan, clock, reading>>

\* ------------------------------------------------------------- completions

\* Variant of Dedup that keeps every occurrence.
DedupKeepsAll(s) == s

\* Array.from(new Set(s)): first occurrences, in order
RECURSIVE Dedup(_)
Dedup(s) ==
  IF s = <<>> THEN <<>>
  ELSE LET front == Dedup(SubSeq(s, 1, Len(s) - 1))
           x     == s[Len(s)]
       IN  IF x \in Range(front) THEN front ELSE Append(front, x)

\* Variant of PushHistory without the slice of line 478.
PushHistoryNoCap(history, entry) == <<entry>> \o history

\* newHist.unshift(entry); newHist.slice(0, 20)
PushHistory(history, entry) ==
  LET newHist == <<entry>> \o history
  IN  SubSeq(newHist, 1, Min(Len(newHist), HistoryCap))

\* Variant of CompleteTask that leaves lastDoneISO as it was.
CompleteTaskKeepsDate(t, actual, now) ==
  [t EXCEPT !.estMin = ewmaUpdate(t.estMin, actual),
            !.history = PushHistory(t.history, [dateISO |-> now, actualMin |-> actual])]

\* the task of a completion, inside prev.tasks.map
CompleteTask(t, actual, now) ==
  [t EXCEPT !.lastDoneISO = ISO(now),
            !.estMin = ewmaUpdate(t.estMin, actual),
            !.history = PushHistory(t.history, [dateISO |-> now, actualMin |-> actual])]

\* Variant of confirmDoneTasks without the id test of line 473.
confirmDoneTasksAll(prevTasks, id, actual, now) ==
  [i \in 1..Len(prevTasks) |-> CompleteTask(prevTasks[i], actual, now)]

confirmDoneTasks(prevTasks, id, actual, now) ==
  [i \in 1..Len(prevTasks) |->
     IF prevTasks[i].id # id THEN prevTasks[i]
     ELSE CompleteTask(prevTasks[i], actual, now)]

\* Variant of confirmDonePlan that pushes the id instead of adding it to a Set.
confirmDonePlanPush(tp, id, now) ==
  IF tp = NoPlan \/ tp.dateISO # now THEN tp
  ELSE [tp EXCEPT !.completedIds = Append(tp.completedIds, id)]

\* Variant of confirmDonePlan without the date test of line 489.
confirmDonePlanAnyDay(tp, id, now) ==
  IF tp = NoPlan THEN tp
  ELSE [tp EXCEPT !.completedIds = Dedup(Append(tp.completedIds, id))]

confirmDonePlan(tp, id, now) ==
  IF tp = NoPlan \/ tp.dateISO # now THEN tp
  ELSE [tp EXCEPT !.completedIds = Dedup(Append(tp.completedIds, id))]

\* completions on record in the collection
RECURSIVE Recorded(_)
Recorded(ts) ==
  IF ts = <<>> THEN 0 ELSE Len(Head(ts).history) + Recorded(Tail(ts))

TaskById(ts, id) == CHOOSE t \in Range(ts) : t.id = id

\* What the minutes field of the Done dialog holds at Confirm Done: the
\* user has typed a number above the range over the prefilled estimate.
ActualInputs(t) == {Num(300)}

\* confirmDone() with doneTaskId = id and the minutes field holding raw
confirmDone(id, raw) ==
  /\ CanClick
  /\ id \in TaskIds(tasks)
  /\ LET actual == clampInt(raw, MinMinutes, MaxMinutes)
     IN  /\ tasks' = confirmDoneTasks(tasks, id, actual, nowISO)
         /\ todayPlan' = confirmDonePlan(todayPlan, id, nowISO)
  /\ Rerender(todayPlan')
  /\ UNCHANGED <<budgetMin, clock, reading>>

\* Done on a task card (Today tab or Tasks tab), then Confirm Done in the
\* dialog it opens: openDone(t); confirmDone().
Complete(id) ==
  /\ id \in TaskIds(tasks)
  /\ \E raw \in ActualInputs(TaskById(tasks, id)) : confirmDone(id, raw)

\* Complete, while the collection holds fewer than MaxDone completions.
ConfirmDone(id) ==
  /\ Recorded(tasks) < MaxDone
  /\ Complete(id)

\* ------------------------------------------------------------ edit, delete

\* The text of a date field: its shape, and the date it spells.
DateText(shape, day) == [shape |-> shape, iso |-> ISO(day)]

\* A text of an accepted shape whose month or day is out of range, such as
\* 2024-99-99 or 13/45/2024: new Date(y, m - 1, d) rolls it over to the day
\* given, and the text names no calendar date.
DateTextOutOfRange(shape, day) ==
  [shape |-> shape, iso |-> [day |-> day, real |-> FALSE]]

\* parseUSDateToISO: [ok, iso]; YYYY-MM-DD is returned as it is, M/D/YYYY is
\* rewritten as YYYY-MM-DD, anything else is null
parseUSDateToISO(text) ==
  IF text.shape = "iso" THEN [ok |-> TRUE, iso |-> text.iso]
  ELSE IF text.shape = "us" THEN [ok |-> TRUE, iso |-> text.iso]
  ELSE [ok |-> FALSE, iso |-> text.iso]

\* Variant of upsertTask that appends the record whether or not its id exists.
upsertTaskAppends(prevTasks, updated) == Append(prevTasks, updated)

upsertTask(prevTasks, updated) ==
  IF \E i \in 1..Len(prevTasks) : prevTasks[i].id = updated.id
  THEN [i \in 1..Len(prevTasks) |->
          IF prevTasks[i].id = updated.id THEN updated ELSE prevTasks[i]]
  ELSE Append(prevTasks, updated)

deleteTaskTasks(prevTasks, id) ==
  SelectSeq(prevTasks, LAMBDA t : t.id # id)

\* Variant of deleteTaskPlan that leaves completedIds alone.
deleteTaskPlanPickedOnly(tp, id) ==
  IF tp = NoPlan THEN NoPlan
  ELSE [tp EXCEPT !.pickedIds = FilterOut(tp.pickedIds, id)]

deleteTaskPlan(tp, id) ==
  IF tp = NoPlan THEN NoPlan
  ELSE [tp EXCEPT !.pickedIds = FilterOut(tp.pickedIds, id),
                  !.completedIds = FilterOut(tp.completedIds, id)]

\* What the editor's fields can hold when Save is pressed.
EditForms ==
  { [name |-> "Mop", freqDays |-> Num(1), lastDone |-> DateText("iso", 0),
     estMin |-> Num(50)],
    [name |-> "Mop", freqDays |-> Num(1), lastDone |-> DateText("other", 0),
     estMin |-> Num(50)],
    [name |-> "", freqDays |-> Num(1), lastDone |-> DateText("iso", 0),
     estMin |-> Num(50)] }

\* TaskEditor.save: [ok, out]
EditorSave(form, id, history) ==
  LET p == parseUSDateToISO(form.lastDone)
  IN  [ok  |-> form.name # "" /\ p.ok,
       out |-> [id |-> id, name |-> form.name,
                freqDays |-> clampInt(form.freqDays, MinFreq, MaxFreq),
                lastDoneISO |-> p.iso,
                estMin |-> clampInt(form.estMin, MinMinutes, MaxMinutes),
                history |-> history]]

\* Save in the editor opened on an existing task.
SaveEdit(id, form) ==
  /\ CanClick
  /\ id \in TaskIds(tasks)
  /\ LET r == EditorSave(form, id, TaskById(tasks, id).history)
     IN  IF r.ok
         THEN tasks' = upsertTask(tasks, r.out) /\ Rerender(todayPlan)
         ELSE UNCHANGED <<tasks, nowISO, ensurePending>>
  /\ UNCHANGED <<todayPlan, budgetMin, clock, reading>>

\* Save in the editor opened by + Add Task.
SaveNew(form) ==
  /\ CanClick
  /\ Len(tasks) < MaxTasks
  /\ IdPool \ UsedIds(tasks, todayPlan) # {}
  /\ LET r == EditorSave(form, uid(UsedIds(tasks, todayPlan)), <<>>)
     IN  IF r.ok
         THEN tasks' = upsertTask(tasks, r.out) /\ Rerender(todayPlan)
         ELSE UNCHANGED <<tasks, nowISO, ensurePending>>
  /\ UNCHANGED <<todayPlan, budgetMin, clock, reading>>

\* Delete in the editor opened on an existing task.
DeleteTask(id) ==
  /\ CanClick
  /\ id \in TaskIds(tasks)
  /\ tasks' = deleteTaskTasks(tasks, id)
  /\ todayPlan' = deleteTaskPlan(todayPlan, id)
  /\ Rerender(todayPlan')
  /\ UNCHANGED <<budgetMin, clock, reading>>

\* ------------------------------------------------------------------ import

\* The rows a pasted text can hold: [name, freqDays, lastDone, estMin];
\* hasEst is whether the row has its fourth column.
ImportRows ==
  { [name |-> "Mop kitchen", freqDays |-> Num(0), lastDone |-> DateText("us", -3),
     hasEst |-> FALSE, estMin |-> NaN],
    [name |-> "Bins", freqDays |-> Num(7), lastDone |-> DateText("other", 0),
     hasEst |-> TRUE, estMin |-> Num(20)] }

\* normalizeImportedRow: [ok, task]
normalizeImportedRow(parts, id) ==
  LET p == parseUSDateToISO(parts.lastDone)
  IN  [ok   |-> parts.name # "" /\ p.ok,
       task |-> [id |-> id, name |-> parts.name,
                 freqDays |-> clampInt(parts.freqDays, MinFreq, MaxFreq),
                 lastDoneISO |-> p.iso,
                 estMin |-> clampInt(IF parts.hasEst THEN parts.estMin
                                     ELSE Num(DefaultEst),
                                     MinMinutes, MaxMinutes),
                 history |-> <<>>]]

\* parsePaste: the rows that normalise, in order, each with an id of its own
RECURSIVE parsePaste(_)
parsePaste(rows) ==
  IF rows = <<>> THEN <<>>
  ELSE LET front == parsePaste(SubSeq(rows, 1, Len(rows) - 1))
           r     == normalizeImportedRow(rows[Len(rows)], uid(TaskIds(front)))
       IN  IF r.ok THEN Append(front, r.task) ELSE front

ImportTexts == UNION {[1..n -> ImportRows] : n \in 1..MaxTasks}

\* Import (Replace list)
ImportTasks(text) ==
  /\ CanClick
  /\ LET parsed == parsePaste(text)
     IN  IF Len(parsed) = 0
         THEN UNCHANGED <<tasks, todayPlan, nowISO, ensurePending>>
         ELSE /\ tasks' = parsed
              /\ todayPlan' = NoPlan
              /\ Rerender(todayPlan')
  /\ UNCHANGED <<budgetMin, clock, reading>>

\* -------------------------------------------------------- restore and reset

FileTask(id, name, freqDays, last, estMin) ==
  [id |-> id, name |-> name, freqDays |-> freqDays, lastDoneISO |-> ISO(last),
   estMin |-> estMin, history |-> <<>>]

\* A parsed file: top is its "tasks" member and st its "state" member.
Member(kind, value) == [kind |-> kind, value |-> value]
Missing == Member("missing", <<>>)

FileGarbage == [parses |-> FALSE, top |-> Missing, st |-> Missing]

FileLegacy ==
  [parses |-> TRUE,
   top |-> Member("array", <<FileTask(1, "Dust", 0, -1, 0)>>),
   st  |-> Missing]

FileTasks == <<FileTask(1, "Dust", 2, -3, 20), FileTask(2, "Iron", 5, -1, 70)>>

FileCurrent(day) ==
  [parses |-> TRUE,
   top |-> Missing,
   st  |-> Member("object",
             [tasks |-> Member("array", FileTasks),
              todayPlan |-> Member("object",
                              [dateISO |-> day, pickedIds |-> <<1, 2>>,
                               completedIds |-> <<1>>])])]

FileCurrentNoPlan ==
  [parses |-> TRUE,
   top |-> Missing,
   st  |-> Member("object",
             [tasks |-> Member("array", FileTasks),
              todayPlan |-> Missing])]

Files ==
  {FileGarbage, FileLegacy, FileCurrentNoPlan} \cup {FileCurrent(d) : d \in 0..MaxDay}

\* Variant of backupNow that writes the legacy shape {tasks: [...]}.
backupNowLegacy(ts, plan) ==
  [parses |-> TRUE, top |-> Member("array", ts), st |-> Missing]

\* backupNow, as the file a later restore parses: JSON.stringify of
\* {version: 2, exportedAtISO, state} has no "tasks" member of its own and a
\* "state" member holding the task array and the plan, an object or null.
\* The tasks and the plan hold strings, integers and arrays of these, which
\* the text carries as they are.
backupNow(ts, plan) ==
  [parses |-> TRUE,
   top |-> Missing,
   st  |-> Member("object",
             [tasks |-> Member("array", ts),
              todayPlan |-> IF plan = NoPlan THEN Member("null", <<>>)
                            ELSE Member("object", plan)])]

\* Variant of restoreFromFile that drops the plan of a current-shape snapshot.
restoreFromFileDropsPlan(file) ==
  IF ~file.parses THEN [ok |-> FALSE, tasks |-> <<>>, todayPlan |-> NoPlan]
  ELSE IF file.top.kind = "array"
       THEN [ok |-> TRUE, tasks |-> file.top.value, todayPlan |-> NoPlan]
  ELSE IF file.st.kind = "object" /\ file.st.value.tasks.kind = "array"
       THEN [ok |-> TRUE, tasks |-> file.st.value.tasks.value, todayPlan |-> NoPlan]
  ELSE [ok |-> FALSE, tasks |-> <<>>, todayPlan |-> NoPlan]

\* restoreFromFile after the read: [ok, tasks, todayPlan] to set, or a failure
restoreFromFile(file) ==
  IF ~file.parses THEN [ok |-> FALSE, tasks |-> <<>>, todayPlan |-> NoPlan]
  ELSE IF file.top.kind = "array"
       THEN [ok |-> TRUE, tasks |-> file.top.value, todayPlan |-> NoPlan]
  ELSE IF file.st.kind = "object" /\ file.st.value.tasks.kind = "array"
       THEN [ok |-> TRUE, tasks |-> file.st.value.tasks.value,
             todayPlan |-> IF file.st.value.todayPlan.kind = "object"
                           THEN file.st.value.todayPlan.value ELSE NoPlan]
  ELSE [ok |-> FALSE, tasks |-> <<>>, todayPlan |-> NoPlan]

\* Restore (Choose JSON): restoreFromFile starts reading the file.
RestoreStart(file) ==
  /\ CanClick
  /\ reading = NoFile
  /\ reading' = file
  /\ UNCHANGED <<tasks, todayPlan, budgetMin, clock, nowISO, ensurePending>>

\* The read completes and restoreFromFile goes on.  A pending effect runs
\* before the next render; otherwise the new state is rendered at once.
RestoreFinish ==
  /\ reading # NoFile
  /\ reading' = NoFile
  /\ LET r == restoreFromFile(reading)
     IN  IF ~r.ok THEN UNCHANGED <<tasks, todayPlan, nowISO, ensurePending>>
         ELSE /\ tasks' = r.tasks
              /\ todayPlan' = r.todayPlan
              /\ IF ensurePending THEN UNCHANGED <<nowISO, ensurePending>>
                 ELSE Rerender(todayPlan')
  /\ UNCHANGED <<budgetMin, clock>>

\* Reset (Clear all), confirmed
Reset ==
  /\ CanClick
  /\ tasks' = <<>>
  /\ todayPlan' = NoPlan
  /\ Rerender(todayPlan')
  /\ UNCHANGED <<budgetMin, clock, reading>>

Next ==
  \/ PlanEffect
  \/ Regenerate
  \/ Tick
  \/ \E raw \in BudgetInputs : SetBudget(raw)
  \/ \E id \in IdPool : ConfirmDone(id)
  \/ \E id \in IdPool, form \in EditForms : SaveEdit(id, form)
  \/ \E form \in EditForms : SaveNew(form)
  \/ \E id \in IdPool : DeleteTask(id)
  \/ \E text \in ImportTexts : ImportTasks(text)
  \/ \E file \in Files : RestoreStart(file)
  \/ RestoreFinish
  \/ Reset

Spec == Init /\ [][Next]_vars

\* ------------------------------------------------ buildPlan on drawn inputs

\* The task collections, days and budgets buildPlan is applied to: tasks of
\* every frequency, last-done day and estimate below (an estMin of 0 is what
\* a restored file can carry), in every order, with ids by position.
PlanFreqs == {1, 3}
PlanLastDone == {-3, 0}
PlanEsts == {0, 7, 20}
PlanBudgets == {MinBudget, 30, InitBudget}

PlanTask(id, freqDays, last, estMin) ==
  [id |-> id, name |-> "task", freqDays |-> freqDays, lastDoneISO |-> ISO(last),
   estMin |-> estMin, history |-> <<>>]

PlanCollections ==
  UNION {{[i \in 1..n |-> PlanTask(i, c[i][1], c[i][2], c[i][3])] :
            c \in [1..n -> PlanFreqs \X PlanLastDone \X PlanEsts]} :
         n \in 0..MaxTasks}

InitPlan ==
  /\ tasks \in PlanCollections
  /\ clock \in 0..MaxDay
  /\ nowISO = clock
  /\ budgetMin \in PlanBudgets
  /\ todayPlan = NoPlan
  /\ ensurePending = FALSE
  /\ reading = NoFile

\* buildPlan applied to the drawn collection, day and budget, through the
\* Generate Today's List button.
SpecPlan == InitPlan /\ [][Regenerate]_vars

\* --------------------------------------------- completions of a saved task

\* The application starts on a saved state (loadState): one task whose
\* history holds n entries, the i-th of i days ago with actualMin = i.
SavedHistory(n) == [i \in 1..n |-> [dateISO |-> -i, actualMin |-> i]]

SavedTask(n) ==
  [id |-> 1, name |-> "Dust", freqDays |-> 2, lastDoneISO |-> ISO(-1),
   estMin |-> 20, history |-> SavedHistory(n)]

InitHistory ==
  /\ clock = 0
  /\ nowISO = 0
  /\ tasks \in {<<SavedTask(n)>> : n \in {0, HistoryCap - 1, HistoryCap}}
  /\ todayPlan = NoPlan
  /\ budgetMin = InitBudget
  /\ ensurePending = TRUE
  /\ reading = NoFile

NextHistory ==
  \/ PlanEffect
  \/ Tick
  \/ \E id \in IdPool : Complete(id)

\* Any number of completions, over the days of the clock.
SpecHistory == InitHistory /\ [][NextHistory]_vars

\* ------------------------------------------------ ewmaUpdate on drawn inputs

\* One task with every estimate of the range, completed once with every
\* number of minutes of the range.
EwmaTask(old) ==
  [id |-> 1, name |-> "Dust", freqDays |-> 2, lastDoneISO |-> ISO(-1),
   estMin |-> old, history |-> <<>>]

InitEwma ==
  /\ clock = 0
  /\ nowISO = 0
  /\ tasks \in {<<EwmaTask(old)>> : old \in MinMinutes..MaxMinutes}
  /\ todayPlan = NoPlan
  /\ budgetMin = InitBudget
  /\ ensurePending = FALSE
  /\ reading = NoFile

EwmaStep ==
  /\ tasks[1].history = <<>>
  /\ \E actual \in MinMinutes..MaxMinutes : confirmDone(1, Num(actual))

SpecEwma == InitEwma /\ [][EwmaStep]_vars

\* ------------------------------------------- restoreFromFile on drawn files

\* Files whose task list is no list, or holds records that are not tasks.
\* A member that is a string carries no list: its value is left empty.
FileNotList ==
  [parses |-> TRUE, top |-> Member("string", <<>>), st |-> Missing]

FileStateNotList ==
  [parses |-> TRUE,
   top |-> Missing,
   st  |-> Member("object",
             [tasks |-> Member("string", <<>>),
              todayPlan |-> Member("object",
                              [dateISO |-> 0, pickedIds |-> <<1>>,
                               completedIds |-> <<>>])])]

FileStateNoTasks ==
  [parses |-> TRUE,
   top |-> Missing,
   st  |-> Member("object", [tasks |-> Missing, todayPlan |-> Missing])]

FileLegacyJunk ==
  [parses |-> TRUE,
   top |-> Member("array", <<[name |-> "Mop"]>>),
   st  |-> Missing]

FileCurrentJunk ==
  [parses |-> TRUE,
   top |-> Missing,
   st  |-> Member("object",
             [tasks |-> Member("array", <<FileTasks[1], [id |-> 2, name |-> "Mop"]>>),
              todayPlan |-> Member("object",
                              [dateISO |-> 0, pickedIds |-> <<1>>,
                               completedIds |-> <<>>])])]

\* A current-shape file whose plan names an id its task list does not hold.
FileCurrentDangling ==
  [parses |-> TRUE,
   top |-> Missing,
   st  |-> Member("object",
             [tasks |-> Member("array", FileTasks),
              todayPlan |-> Member("object",
                              [dateISO |-> 0, pickedIds |-> <<1, 3>>,
                               completedIds |-> <<3>>])])]

RestoreFiles ==
  Files \cup {FileNotList, FileStateNotList, FileStateNoTasks,
              FileLegacyJunk, FileCurrentJunk, FileCurrentDangling}

\* The states a restore starts from: no task and no plan, or the sample tasks
\* or two saved tasks with no plan, a plan for today or a plan of the day
\* before.
RestoreTasks == {<<>>, defaultTasksFromSample(0), FileTasks}

RestorePlans ==
  {NoPlan} \cup {[dateISO |-> d, pickedIds |-> <<1>>, completedIds |-> c] :
                   d \in {-1, 0}, c \in {<<>>, <<1>>}}

InitRestore ==
  /\ clock = 0
  /\ nowISO = 0
  /\ tasks \in RestoreTasks
  /\ todayPlan \in RestorePlans
  /\ tasks = <<>> => todayPlan = NoPlan
  /\ budgetMin = InitBudget
  /\ ensurePending = FALSE
  /\ reading = NoFile

NextRestore ==
  \/ \E file \in RestoreFiles : RestoreStart(file)
  \/ RestoreFinish

SpecRestore == InitRestore /\ [][NextRestore]_vars

\* ------------------------------------------------ the editor on drawn forms

\* What the editor's fields can hold when Save is pressed: a name or none,
\* numbers in and out of range or no number, and a date text of an accepted
\* shape (in or out of range) or of no accepted shape.
EditNames == {"Mop", ""}
EditFreqs == {Num(5000), NaN}
EditMinutes == {Num(0), Num(999)}
EditDates ==
  {DateText("iso", 0), DateText("us", -2), DateText("other", 0),
   DateTextOutOfRange("iso", 5), DateTextOutOfRange("us", 7)}

EditFormsDrawn ==
  {[name |-> n, freqDays |-> f, lastDone |-> l, estMin |-> e] :
     n \in EditNames, f \in EditFreqs, l \in EditDates, e \in EditMinutes}

InitEdit ==
  /\ clock = 0
  /\ nowISO = 0
  /\ tasks \in {<<>>, defaultTasksFromSample(0)}
  /\ todayPlan = NoPlan
  /\ budgetMin = InitBudget
  /\ ensurePending = FALSE
  /\ reading = NoFile

NextEdit ==
  \/ \E id \in IdPool, form \in EditFormsDrawn : SaveEdit(id, form)
  \/ \E form \in EditFormsDrawn : SaveNew(form)

SpecEdit == InitEdit /\ [][NextEdit]_vars

\* ===================================================================== claims

\* the steps of each operation
ImportStep == \E text \in ImportTexts : Len(parsePaste(text)) > 0 /\ ImportTasks(text)
LegacyRestoreStep ==
  RestoreFinish /\ reading # NoFile /\ reading.parses /\ reading.top.kind = "array"
CurrentRestoreStep ==
  /\ RestoreFinish /\ reading # NoFile /\ reading.parses
  /\ reading.top.kind # "array" /\ restoreFromFile(reading).ok

IsStale(plan, day) == plan # NoPlan /\ plan.dateISO # day

\* s without x, the order kept
Others(s, x) == SelectSeq(s, LAMBDA y : y # x)

\* --------------------------------------------------------------------- C1
\* C1: while a plan for today exists, a completion (confirmDone, for any
\* task id, repeated or not) leaves pickedIds and dateISO as they were,
\* removes no id from completedIds, and leaves completedIds as it was when
\* the id is already in it.
C1_PlanLocking ==
  [][\A id \in IdPool :
       (ConfirmDone(id) /\ HasPlanFor(todayPlan, nowISO)) =>
         /\ todayPlan' # NoPlan
         /\ todayPlan'.pickedIds = todayPlan.pickedIds
         /\ todayPlan'.dateISO = todayPlan.dateISO
         /\ Range(todayPlan.completedIds) \subseteq Range(todayPlan'.completedIds)
         /\ id \in Range(todayPlan'.completedIds)
         /\ (id \in Range(todayPlan.completedIds) =>
               todayPlan'.completedIds = todayPlan.completedIds)]_vars

\* A task completed twice on the day of a plan that lists it once as completed.
C1_Witness ==
  /\ HasPlanFor(todayPlan, nowISO)
  /\ \E t \in Range(tasks) :
       /\ Len(t.history) = 2
       /\ t.history[1].dateISO = nowISO /\ t.history[2].dateISO = nowISO
       /\ t.id \in Range(todayPlan.pickedIds)
       /\ Len(SelectSeq(todayPlan.completedIds, LAMBDA x : x = t.id)) = 1

\* --------------------------------------------------------------------- C2
\* C2: whenever a daily plan exists, completedIds is a subset of pickedIds.
C2_CompletedSubsetPicked ==
  todayPlan # NoPlan =>
    Range(todayPlan.completedIds) \subseteq Range(todayPlan.pickedIds)

\* --------------------------------------------------------------------- C3
TestBudgets == {1, 10, 15, 29, 30, 60, 65, 240}
TestDays == {nowISO, clock, clock + 1}

RECURSIVE SumSeq(_)
SumSeq(ns) == IF ns = <<>> THEN 0 ELSE Head(ns) + SumSeq(Tail(ns))

ClaimedMinutes(t) == Max(1, t.estMin)

BudgetRespected(ts, day, B, Minutes(_)) ==
  LET r   == buildPlan(ts, day, B)
      sum == SumSeq([i \in 1..Len(r.pickedIds) |->
                       Minutes(TaskById(ts, r.pickedIds[i]))])
  IN  /\ r.totalEstMin = sum
      /\ \/ sum <= B
         \/ /\ \A t \in Range(ts) : Minutes(t) > B
            /\ Len(r.pickedIds) = 1

Outranks(a, b, day) ==
  \/ isOverdue(a, day) /\ ~isOverdue(b, day)
  \/ /\ isOverdue(a, day) = isOverdue(b, day)
     /\ ScoreNum(a, day) * ScoreDen(b) > ScoreNum(b, day) * ScoreDen(a)
  \/ /\ isOverdue(a, day) = isOverdue(b, day)
     /\ ScoreNum(a, day) * ScoreDen(b) = ScoreNum(b, day) * ScoreDen(a)
     /\ computeDueISO(a) < computeDueISO(b)

NeverEmpty(ts, day, B) ==
  LET r == buildPlan(ts, day, B)
  IN  /\ ts # <<>> => Len(r.pickedIds) >= 1
      /\ (ts # <<>> /\ \A t \in Range(ts) : EstOf(t) > B) =>
           /\ Len(r.pickedIds) = 1
           /\ r.pickedIds[1] \in TaskIds(ts)
           /\ \A t \in Range(ts) : ~Outranks(t, TaskById(ts, r.pickedIds[1]), day)

\* C4: for a non-empty task collection buildPlan returns at least one id for
\* every budget > 0, and when no task fits within the budget the one id it
\* returns is that of a task no other task outranks.
C4_NeverEmpty ==
  \A B \in TestBudgets, day \in TestDays : NeverEmpty(tasks, day, B)

\* No task fits today's budget, the tasks differ in priority, and today's
\* plan is the single id buildPlan returns.
C4_Witness ==
  /\ HasPlanFor(todayPlan, nowISO)
  /\ Len(tasks) >= 2
  /\ \A t \in Range(tasks) : EstOf(t) > budgetMin
  /\ \E a, b \in Range(tasks) : Outranks(a, b, nowISO)
  /\ Len(todayPlan.pickedIds) = 1
  /\ todayPlan.pickedIds = buildPlan(tasks, nowISO, budgetMin).pickedIds

\* --------------------------------------------------------------------- C5
\* C5: ensureTodayPlan(false) run while a plan dated today exists changes
\* nothing of the state: tasks and plan stay as they were.
C5_EnsureNoOp ==
  [][(PlanEffect /\ HasPlanFor(todayPlan, nowISO)) =>
       (tasks' = tasks /\ todayPlan' = todayPlan)]_vars

\* The effect is about to call ensureTodayPlan(false) on a state that holds a
\* plan for today with a completion in it (a restore brought it in after the
\* render that scheduled the effect).
C5_Witness ==
  /\ ensurePending
  /\ HasPlanFor(todayPlan, nowISO)
  /\ todayPlan.completedIds # <<>>

\* --------------------------------------------------------------------- C6
\* C6: ensureTodayPlan run with no plan, with a plan of another day, or
\* forced, makes the plan {today, buildPlan(all tasks, today, budget).pickedIds,
\* no completed id} and leaves the tasks as they were.
C6_EnsureReplaces ==
  [][(Regenerate \/ (PlanEffect /\ ~HasPlanFor(todayPlan, nowISO))) =>
       /\ tasks' = tasks
       /\ todayPlan' # NoPlan
       /\ todayPlan'.dateISO = nowISO
       /\ todayPlan'.completedIds = <<>>
       /\ todayPlan'.pickedIds = buildPlan(tasks, nowISO, budgetMin).pickedIds]_vars

\* A fresh plan for today lists a task that was completed today: the plan it
\* replaced had that completion.
C6_Witness ==
  /\ HasPlanFor(todayPlan, nowISO)
  /\ todayPlan.completedIds = <<>>
  /\ \E t \in Range(tasks) :
       /\ t.history # <<>> /\ t.history[1].dateISO = nowISO
       /\ t.id \in Range(todayPlan.pickedIds)

\* --------------------------------------------------------------------- C7
\* C7: deleteTask(id) removes the task and removes id from pickedIds and
\* completedIds of the plan, today's or not; the other tasks, the other ids
\* in their order and dateISO stay, and an absent plan stays absent.
C7_DeletePurges ==
  [][\A id \in IdPool :
       DeleteTask(id) =>
         /\ id \notin TaskIds(tasks')
         /\ tasks' = SelectSeq(tasks, LAMBDA t : t.id # id)
         /\ (todayPlan = NoPlan => todayPlan' = NoPlan)
         /\ (todayPlan # NoPlan =>
               /\ todayPlan' # NoPlan
               /\ todayPlan'.dateISO = todayPlan.dateISO
               /\ id \notin Range(todayPlan'.pickedIds)
               /\ id \notin Range(todayPlan'.completedIds)
               /\ todayPlan'.pickedIds = Others(todayPlan.pickedIds, id)
               /\ todayPlan'.completedIds = Others(todayPlan.completedIds, id))]_vars

\* The restored snapshot after its first task was deleted: the plan, not
\* today's, has lost the id from both lists.
C7_Witness ==
  /\ tasks = <<FileTasks[2]>>
  /\ IsStale(todayPlan, nowISO)
  /\ todayPlan.pickedIds = <<2>>
  /\ todayPlan.completedIds = <<>>

\* --------------------------------------------------------------------- C8
FreshPlan(plan, ts, day, budget) ==
  /\ plan # NoPlan
  /\ plan.dateISO = day
  /\ plan.completedIds = <<>>
  /\ plan.pickedIds = buildPlan(ts, day, budget).pickedIds

KeptOrReplaced ==
  \/ todayPlan' = todayPlan
  \/ todayPlan' = NoPlan
  \/ FreshPlan(todayPlan', tasks, nowISO, budgetMin)

\* C8 as stated: from a state holding a plan of another day, every step
\* leaves the plan as it was or replaces it by a fresh plan for today or by
\* no plan.
C8_AsStated ==
  [][IsStale(todayPlan, nowISO) => KeptOrReplaced]_vars

\* C8 amended: the same, except that deleteTask(id) removes id from
\* pickedIds and completedIds of the plan and keeps its dateISO, and that a
\* restore of a current-shape snapshot replaces the plan by the snapshot's.
C8_StaleNotMutated ==
  [][IsStale(todayPlan, nowISO) =>
       \/ KeptOrReplaced
       \/ \E id \in IdPool :
            /\ DeleteTask(id)
            /\ todayPlan' = [todayPlan EXCEPT
                               !.pickedIds = Others(todayPlan.pickedIds, id),
                               !.completedIds = Others(todayPlan.completedIds, id)]
       \/ /\ CurrentRestoreStep
          /\ todayPlan' = restoreFromFile(reading).todayPlan]_vars

\* A task the plan of another day lists was completed today, and the plan
\* does not list it as completed.
C8_Witness ==
  /\ IsStale(todayPlan, nowISO)
  /\ ~ensurePending
  /\ \E t \in Range(tasks) :
       /\ t.history # <<>> /\ t.history[1].dateISO = nowISO
       /\ t.id \in Range(todayPlan.pickedIds)
       /\ t.id \notin Range(todayPlan.completedIds)

\* --------------------------------------------------------------------- C9
\* C9 as stated: every step that replaces the task collection wholesale
\* (import, restore of either shape, reset) leaves no plan.
C9_AsStated ==
  [][(ImportStep \/ Reset \/ LegacyRestoreStep \/ CurrentRestoreStep) =>
       todayPlan' = NoPlan]_vars

\* C9 amended: import, reset and the restore of a legacy snapshot leave no
\* plan; the restore of a current-shape snapshot leaves the plan the
\* snapshot carries, and no plan when it carries none.
C9_ReplaceDiscardsPlan ==
  [][/\ (ImportStep \/ Reset \/ LegacyRestoreStep) => todayPlan' = NoPlan
     /\ CurrentRestoreStep =>
          /\ tasks' = reading.st.value.tasks.value
          /\ todayPlan' = IF reading.st.value.todayPlan.kind = "missing" THEN NoPlan
                          ELSE reading.st.value.todayPlan.value]_vars

\* The state a restored current-shape snapshot leaves: its tasks and its plan.
C9_Witness ==
  /\ reading = NoFile
  /\ tasks = FileTasks
  /\ \E d \in 0..MaxDay : todayPlan = FileCurrent(d).st.value.todayPlan.value

\* -------------------------------------------------------------------- C10
\* C10: once the render that follows a state change and its effect have
\* run, the state holds a plan for today, with no regenerate request.
C10_PlanAfterRender ==
  ~ensurePending => HasPlanFor(todayPlan, nowISO)

\* -------------------------------------------------------------------- C11
\* C11: upsertTask, editing an existing task or adding a new one, leaves
\* todayPlan exactly as it was and leaves every other task as it was, in its
\* place.
C11_UpsertFrame ==
  [][\A form \in EditForms :
       /\ \A id \in IdPool :
            SaveEdit(id, form) =>
              /\ todayPlan' = todayPlan
              /\ Len(tasks') = Len(tasks)
              /\ \A i \in 1..Len(tasks) : tasks[i].id # id => tasks'[i] = tasks[i]
       /\ SaveNew(form) =>
            /\ todayPlan' = todayPlan
            /\ Len(tasks') >= Len(tasks)
            /\ SubSeq(tasks', 1, Len(tasks)) = tasks]_vars

\* A task of today's plan was edited (it carries the editor's name and
\* estimate) beside another task, and the plan is not the one buildPlan
\* would return for the edited collection.
C11_Witness ==
  /\ HasPlanFor(todayPlan, nowISO)
  /\ Len(tasks) >= 2
  /\ \E t \in Range(tasks) :
       t.name = "Mop" /\ t.estMin = 50 /\ t.id \in Range(todayPlan.pickedIds)
  /\ todayPlan.pickedIds # buildPlan(tasks, nowISO, budgetMin).pickedIds

\* -------------------------------------------------------------------- C12
\* C12: a completion while no plan for today exists (absent or of another
\* day) leaves the plan record exactly as it was and still updates the task:
\* lastDoneISO is today, the history gains {today, actual} in front, and
\* estMin is ewmaUpdate of the old estimate and the actual.
C12_DoneWithoutPlan ==
  [][\A id \in IdPool :
       (ConfirmDone(id) /\ ~HasPlanFor(todayPlan, nowISO)) =>
         /\ todayPlan' = todayPlan
         /\ Len(tasks') = Len(tasks)
         /\ \A i \in 1..Len(tasks) :
              tasks[i].id = id =>
                /\ tasks'[i].lastDoneISO = ISO(nowISO)
                /\ tasks'[i].history # <<>>
                /\ tasks'[i].history[1].dateISO = nowISO
                /\ tasks'[i].history[1].actualMin \in MinMinutes..MaxMinutes
                /\ Tail(tasks'[i].history) =
                     SubSeq(tasks[i].history, 1,
                            Min(Len(tasks[i].history), HistoryCap - 1))
                /\ tasks'[i].estMin =
                     ewmaUpdate(tasks[i].estMin, tasks'[i].history[1].actualMin)]_vars

\* No plan exists and a task carries a completion of today.
C12_Witness ==
  /\ todayPlan = NoPlan
  /\ ~ensurePending
  /\ \E t \in Range(tasks) :
       /\ t.history # <<>> /\ t.history[1].dateISO = nowISO
       /\ t.lastDoneISO = ISO(nowISO)

\* -------------------------------------------------------------------- C13
NewestFirst(h) == \A i \in 1..(Len(h) - 1) : h[i].dateISO >= h[i + 1].dateISO

\* C13: every completion of a task whose history has at most 20 entries
\* leaves it a history of at most 20 entries: {today, actual} at index 0,
\* then the prior entries in their prior order, only those beyond 20 dropped;
\* a history ordered newest-first stays so.
C13_HistoryBounded ==
  [][\A id \in IdPool :
       Complete(id) =>
         \A i \in 1..Len(tasks) :
           (tasks[i].id = id /\ Len(tasks[i].history) <= HistoryCap) =>
             LET h  == tasks[i].history
                 hn == tasks'[i].history
             IN  /\ Len(hn) = Min(Len(h) + 1, HistoryCap)
                 /\ hn[1].dateISO = nowISO
                 /\ hn[1].actualMin \in MinMinutes..MaxMinutes
                 /\ Tail(hn) = SubSeq(h, 1, Len(hn) - 1)
                 /\ (NewestFirst(h) => NewestFirst(hn))]_vars

\* A full history whose two newest entries are completions of two days and
\* which has lost saved entries at its end.
C13_Witness ==
  \E t \in Range(tasks) :
    /\ Len(t.history) = HistoryCap
    /\ t.history[1].dateISO > t.history[2].dateISO
    /\ t.history[2].actualMin = MaxMinutes
    /\ t.history[HistoryCap].actualMin < HistoryCap - 1

\* -------------------------------------------------------------------- C14
\* C14: for old and actual in 1..240 the estimate a completion leaves,
\* ewmaUpdate(old, actual), is at least 1, lies between min(old, actual) and
\* max(old, actual), is 0.7 * old + 0.3 * actual rounded to the nearest
\* integer with a half going up, and is x when old = actual = x.
C14_EwmaRounded ==
  [][\A actual \in MinMinutes..MaxMinutes :
       confirmDone(1, Num(actual)) =>
         LET old == tasks[1].estMin
             r   == tasks'[1].estMin
         IN  /\ r >= 1
             /\ Min(old, actual) <= r /\ r <= Max(old, actual)
             /\ 10 * r <= 7 * old + 3 * actual + 5
             /\ 7 * old + 3 * actual + 5 < 10 * r + 10
             /\ (old = actual => r = old)]_vars

C16_DueOutscores ==
  \A day \in TestDays :
    /\ \A a, b \in Range(tasks) :
         (DueBranch(a, day) /\ ~DueBranch(b, day)) =>
           ScoreNum(a, day) * ScoreDen(b) > ScoreNum(b, day) * ScoreDen(a)
    /\ \A t \in Range(tasks) :
         /\ DueBranch(t, day) => ScoreNum(t, day) >= 5 * ScoreDen(t)
         /\ DaysSince(t, day) = Freq(t) => ScoreNum(t, day) = 5 * ScoreDen(t)
         /\ ~DueBranch(t, day) => ScoreNum(t, day) < 2 * ScoreDen(t)

\* Today's plan lists a task that falls due today before a task not yet due
\* with a positive score, which stood before it in the collection.
C16_Witness ==
  /\ HasPlanFor(todayPlan, nowISO)
  /\ Len(tasks) = 2
  /\ ~DueBranch(tasks[1], nowISO)
  /\ DaysSince(tasks[1], nowISO) > 0
  /\ DaysSince(tasks[2], nowISO) = Freq(tasks[2])
  /\ todayPlan.pickedIds = <<tasks[2].id, tasks[1].id>>

\* -------------------------------------------------------------------- C17
\* the collection in every order
Orders(ts) ==
  {[i \in 1..Len(ts) |-> ts[p[i]]] :
     p \in {q \in [1..Len(ts) -> 1..Len(ts)] :
              \A i, j \in 1..Len(ts) : q[i] = q[j] => i = j}}

\* C17: for ids i before j in the pickedIds buildPlan returns, j is not
\* overdue while i is not; with the same overdue flag score(i) >= score(j);
\* with the same score too, dueDate(i) <= dueDate(j).  When every two tasks
\* differ in one of the three keys, buildPlan returns the same pickedIds for
\* every order of the collection.
C17_PriorityOrder ==
  LET r   == buildPlan(tasks, nowISO, budgetMin).pickedIds
      T(k) == TaskById(tasks, r[k])
  IN  /\ \A i, j \in 1..Len(r) :
           i < j =>
             /\ ~(isOverdue(T(j), nowISO) /\ ~isOverdue(T(i), nowISO))
             /\ isOverdue(T(i), nowISO) = isOverdue(T(j), nowISO) =>
                  /\ ScoreNum(T(i), nowISO) * ScoreDen(T(j))
                       >= ScoreNum(T(j), nowISO) * ScoreDen(T(i))
                  /\ ScoreNum(T(i), nowISO) * ScoreDen(T(j))
                       = ScoreNum(T(j), nowISO) * ScoreDen(T(i))
                     => computeDueISO(T(i)) <= computeDueISO(T(j))
      /\ (\A i, j \in 1..Len(tasks) :
            i # j => \/ Outranks(tasks[i], tasks[j], nowISO)
                     \/ Outranks(tasks[j], tasks[i], nowISO))
         => \A ts \in Orders(tasks) :
              buildPlan(ts, nowISO, budgetMin).pickedIds = r

\* Today's plan lists the second task of the collection before the first:
\* neither is overdue, their scores are equal, and the second falls due
\* earlier.
C17_Witness ==
  /\ HasPlanFor(todayPlan, nowISO)
  /\ Len(tasks) = 2
  /\ todayPlan.pickedIds = <<tasks[2].id, tasks[1].id>>
  /\ ~isOverdue(tasks[1], nowISO) /\ ~isOverdue(tasks[2], nowISO)
  /\ ScoreNum(tasks[1], nowISO) * ScoreDen(tasks[2])
       = ScoreNum(tasks[2], nowISO) * ScoreDen(tasks[1])
  /\ computeDueISO(tasks[2]) < computeDueISO(tasks[1])

\* A record of a snapshot's task list is task-shaped when it has the members
\* of a task; a snapshot is well formed when it parses and its task list,
\* legacy or current, is a sequence of task-shaped records.
TaskMembers == {"id", "freqDays", "lastDoneISO", "estMin"}
TaskShaped(r) == TaskMembers \subseteq DOMAIN r
TaskList(m) ==
  m.kind = "array" /\ \A i \in 1..Len(m.value) : TaskShaped(m.value[i])
WellFormed(file) ==
  /\ file.parses
  /\ \/ TaskList(file.top)
     \/ file.st.kind = "object" /\ TaskList(file.st.value.tasks)

\* C18: restore is all-or-nothing.  When the snapshot's task list is missing,
\* is no sequence, or holds a record that is not task-shaped, restoreFromFile
\* leaves tasks and plan exactly as they were; otherwise it replaces both,
\* the tasks by the snapshot's and the plan by the snapshot's plan or none.
C18_AllOrNothing ==
  [][RestoreFinish =>
       IF WellFormed(reading)
       THEN /\ tasks' = (IF TaskList(reading.top) THEN reading.top.value
                         ELSE reading.st.value.tasks.value)
            /\ todayPlan' = (IF ~TaskList(reading.top)
                                /\ reading.st.value.todayPlan.kind = "object"
                             THEN reading.st.value.todayPlan.value ELSE NoPlan)
       ELSE UNCHANGED <<tasks, todayPlan>>]_vars

C20_TaskBounds ==
  \A i \in 1..Len(tasks) :
    /\ tasks[i].freqDays >= MinFreq
    /\ tasks[i].estMin \in MinMinutes..MaxMinutes

\* C21: a manual edit whose last-done text is no valid calendar date is
\* rejected, so that after any sequence of edits every task's lastDoneISO
\* names a real calendar date, texts of an accepted shape with a month or
\* day out of range included.
C21_RealDates ==
  \A i \in 1..Len(tasks) : tasks[i].lastDoneISO.real

\* C22: each user action runs to completion before the next is processed.
\* Between the start of a restore and the state change it performs, that is
\* while restoreFromFile awaits the file read, no other action changes the
\* tasks or the plan.
C22_RunToCompletion ==
  [][reading # NoFile /\ reading' # NoFile
       => UNCHANGED <<tasks, todayPlan>>]_vars

NoRepeat(s) == \A i, j \in 1..Len(s) : i # j => s[i] # s[j]

\* C23: in every reachable state with a plan, the task ids being unique,
\* pickedIds holds each id at most once and so does completedIds.
C23_NoRepeats ==
  (todayPlan # NoPlan /\ NoRepeat([i \in 1..Len(tasks) |-> tasks[i].id]))
    => NoRepeat(todayPlan.pickedIds) /\ NoRepeat(todayPlan.completedIds)

\* A task completed twice on the day of the plan, which lists it among two
\* picked tasks and holds it once as completed.
C23_Witness ==
  /\ HasPlanFor(todayPlan, nowISO)
  /\ Len(todayPlan.pickedIds) = 2
  /\ \E i \in 1..Len(tasks) :
       /\ Len(tasks[i].history) = 2
       /\ tasks[i].history[1].dateISO = nowISO
       /\ tasks[i].history[2].dateISO = nowISO
       /\ todayPlan.completedIds = <<tasks[i].id>>

\* --------------------------------------------------------------------- C24
\* The reference scan over the priority-sorted list: RefTotal(scored, i, B) is
\* the running total on reaching item i, and item i is picked exactly when
\* that total is below the budget and the item fits.
RECURSIVE RefTotal(_, _, _)
RefTotal(scored, i, B) ==
  IF i = 1 THEN 0
  ELSE LET before == RefTotal(scored, i - 1, B)
       IN  IF before < B /\ before + scored[i - 1].est <= B
           THEN before + scored[i - 1].est ELSE before

RefPicked(scored, i, B) ==
  RefTotal(scored, i, B) < B /\ RefTotal(scored, i, B) + scored[i].est <= B

RECURSIVE RefScan(_, _, _)
RefScan(scored, n, B) ==
  IF n = 0 THEN <<>>
  ELSE IF RefPicked(scored, n, B)
       THEN Append(RefScan(scored, n - 1, B), scored[n].task.id)
  ELSE RefScan(scored, n - 1, B)

Reference(ts, day, B) ==
  RefScan(ScoredList(ts, day), Len(ts), B)

\* C24 as stated: for every task collection, day and budget, buildPlan's
\* selection is the selection of the reference scan.
C24_AsStated ==
  \A B \in TestBudgets, day \in TestDays :
    buildPlan(tasks, day, B).pickedIds = Reference(tasks, day, B)

\* C24 amended: buildPlan's selection is the selection of the reference scan,
\* unless the scan picks nothing of a non-empty collection, and then it is
\* the first task of the priority order alone.
C24_GreedyScan ==
  \A B \in TestBudgets, day \in TestDays :
    LET ref == Reference(tasks, day, B)
    IN  buildPlan(tasks, day, B).pickedIds =
          (IF ref = <<>> /\ tasks # <<>>
           THEN <<ScoredList(tasks, day)[1].task.id>> ELSE ref)

\* Today's plan holds the second task of the priority order alone: the first
\* did not fit the budget and was skipped, and the scan went on to the second.
C24_Witness ==
  /\ HasPlanFor(todayPlan, nowISO)
  /\ Len(tasks) = 2
  /\ LET scored == ScoredList(tasks, nowISO)
     IN  /\ scored[1].est > budgetMin
         /\ scored[2].est <= budgetMin
         /\ Outranks(scored[1].task, scored[2].task, nowISO)
         /\ todayPlan.pickedIds = <<scored[2].task.id>>
         /\ todayPlan.pickedIds = Reference(tasks, nowISO, budgetMin)

\* --------------------------------------------------------------------- C25
\* C25: confirmDone(id) changes only the task with that id, and of it only
\* lastDoneISO (today), estMin (ewmaUpdate of the old estimate and the actual
\* clamped to [1, 240]) and history; its id, name and freqDays, every other
\* task and the order of the collection stay as they were; for an id no task
\* has, the collection is unchanged.
C25_DoneFrame ==
  [][/\ \A id \in IdPool :
          ConfirmDone(id) =>
            /\ Len(tasks') = Len(tasks)
            /\ \A i \in 1..Len(tasks) :
                 IF tasks[i].id # id THEN tasks'[i] = tasks[i]
                 ELSE /\ tasks'[i].id = tasks[i].id
                      /\ tasks'[i].name = tasks[i].name
                      /\ tasks'[i].freqDays = tasks[i].freqDays
                      /\ tasks'[i].lastDoneISO = ISO(nowISO)
                      /\ tasks'[i].history # <<>>
                      /\ tasks'[i].history[1].actualMin \in MinMinutes..MaxMinutes
                      /\ tasks'[i].estMin =
                           ewmaUpdate(tasks[i].estMin,
                                      tasks'[i].history[1].actualMin)
     /\ \A id \in IdPool \ TaskIds(tasks), actual \in {MinMinutes, MaxMinutes} :
          confirmDoneTasks(tasks, id, actual, nowISO) = tasks]_vars

\* The second of two tasks was completed today, past its range of minutes,
\* and the first, never completed, stands before it.
C25_Witness ==
  /\ Len(tasks) = 2
  /\ tasks[1].history = <<>>
  /\ tasks[1].lastDoneISO # ISO(nowISO)
  /\ Len(tasks[2].history) = 1
  /\ tasks[2].history[1] = [dateISO |-> nowISO, actualMin |-> MaxMinutes]
  /\ tasks[2].lastDoneISO = ISO(nowISO)

\* C26: in every reachable state with a plan, every id of pickedIds and of
\* completedIds is the id of a task of the collection.
C26_NoDangling ==
  todayPlan # NoPlan =>
    /\ Range(todayPlan.pickedIds) \subseteq TaskIds(tasks)
    /\ Range(todayPlan.completedIds) \subseteq TaskIds(tasks)

\* the "remaining today" list: pickedIds minus completedIds
Remaining(plan) == Range(plan.pickedIds) \ Range(plan.completedIds)

\* C27: each task is offered at most once per calendar day.  A task marked
\* done on the day of the plan (its latest completion carries that day) is
\* not in the remaining list of that day, whatever happened since, a forced
\* regeneration included.
C27_OncePerDay ==
  todayPlan # NoPlan =>
    \A i \in 1..Len(tasks) :
      (tasks[i].history # <<>>
         /\ tasks[i].history[1].dateISO = todayPlan.dateISO)
        => tasks[i].id \notin Remaining(todayPlan)

====
